---- MODULE Spec2Model ----
(***************************************************************************)
(* The onboarding planner, a Node.js command-line script: main() reads    *)
(* five CSV manifests from the working directory, indexes them by          *)
(* project_id, probes secrets/<project_id>/.env, builds one plan per       *)
(* project and either prints the plan (dry run) or creates the working     *)
(* directories (apply).  One run of the script is one pass of pc from      *)
(* "idle" to "done" or "failed"; the script is invoked repeatedly on the   *)
(* same working directory.                                                 *)
(***************************************************************************)
EXTENDS Integers, Sequences, FiniteSets, TLC

VARIABLES
    fs,            \* the working directory: path -> node, for the nodes that exist
    pc,            \* position of the current run in main()
    args,          \* process.argv.slice(2) as a set of flags, until line 81 has read it
    isDryRun,      \* main: const isDryRun
    presentFiles,  \* main: const presentFiles
    missing,       \* main: const missing
    tables,        \* main: manifest, tests, webhooks, htmlSites, apps (rows read)
    projectIds,    \* main: const projectIds
    plans,         \* main: const plans
    cursor,        \* position of the running for..of loop over projectIds
    stdout,        \* what the run printed with console.log
    stderr,        \* what the run printed with console.error
    exitCode,      \* exit status of the run: -1 while running, 0 normal, 1 process.exit(1)
    made,          \* how many of the apply step's mkdir calls have returned
    snap,          \* the working directory as it was when the current run started
    prev,          \* the run before the current one, when it finished normally
    edited,        \* whether the operator changed a file between two runs
    reruns         \* runs started since that change

vars == <<fs, pc, args, isDryRun, presentFiles, missing, tables, projectIds,
          plans, cursor, stdout, stderr, exitCode, made, snap, prev, edited, reruns>>

-----------------------------------------------------------------------------
(* Bounds and input domains *)

\* longest primary manifest (rows)
MaxRows == 2

\* runs explored after the operator changed a file
MaxReruns == 1

\* project identifiers: plain strings, canonical array indices ("1", "2"),
\* and a name every JavaScript object inherits from Object.prototype
PlainIds == {"a", "b"}
IndexIds == {"1", "2"}
ProtoIds == {"constructor"}
Ids == PlainIds \cup IndexIds \cup ProtoIds

\* an identifier that occurs in secondary CSVs only
StrayId == "zz"

Types == {"playwright_tests", "html_site", "webhook", "app"}
DeployTargets == {"", "vercel"}

\* command lines: any set of these flags
ArgLists == SUBSET {"--apply", "--dry-run", "--verbose"}

-----------------------------------------------------------------------------
(* JavaScript objects: own properties in OrdinaryOwnPropertyKeys order *)

\* the numeric value of a canonical array-index string, -1 for any other key
ArrayIndex(k) ==
    CASE k = "1" -> 1
      [] k = "2" -> 2
      [] OTHER -> -1

\* names a plain object inherits from Object.prototype
ObjectPrototypeKeys == {"constructor"}

Undefined == [tag |-> "undefined", row |-> <<>>]
Own(r) == [tag |-> "own", row |-> r]
Inherited == [tag |-> "inherited", row |-> <<>>]

\* keys of an object given as a sequence of <<key, value>> pairs
KeysOf(obj) == [i \in 1..Len(obj) |-> obj[i][1]]

HasOwn(obj, k) == \E i \in 1..Len(obj) : obj[i][1] = k

\* where a new key goes: integer keys ascending first, then strings in
\* insertion order
InsertAt(obj, k) ==
    IF ArrayIndex(k) < 0 THEN Len(obj) + 1
    ELSE 1 + Cardinality({i \in 1..Len(obj) :
                 ArrayIndex(obj[i][1]) >= 0 /\ ArrayIndex(obj[i][1]) < ArrayIndex(k)})

\* SetProp without the test for an existing key: every entry is appended
SetPropAppend(obj, k, v) == Append(obj, <<k, v>>)

\* SetProp that leaves an existing key as it is: the first entry wins
SetPropKeepFirst(obj, k, v) ==
    IF HasOwn(obj, k) THEN obj
    ELSE LET p == InsertAt(obj, k)
         IN  SubSeq(obj, 1, p - 1) \o << <<k, v>> >> \o SubSeq(obj, p, Len(obj))

\* obj[k] = v (CreateDataProperty): an existing key keeps its place
SetProp(obj, k, v) ==
    IF HasOwn(obj, k)
    THEN [i \in 1..Len(obj) |-> IF obj[i][1] = k THEN <<k, v>> ELSE obj[i]]
    ELSE LET p == InsertAt(obj, k)
         IN  SubSeq(obj, 1, p - 1) \o << <<k, v>> >> \o SubSeq(obj, p, Len(obj))

RECURSIVE FromEntriesFrom(_, _, _)
FromEntriesFrom(rows, i, obj) ==
    IF i > Len(rows) THEN obj
    ELSE FromEntriesFrom(rows, i + 1, SetProp(obj, rows[i].project_id, rows[i]))

\* Object.fromEntries(rows.map(r => [r.project_id, r]))
FromEntries(rows) == FromEntriesFrom(rows, 1, <<>>)

\* Object.keys(obj)
ObjectKeys(obj) == KeysOf(obj)

\* obj[k]: the own property, else what the prototype chain gives
GetProp(obj, k) ==
    IF HasOwn(obj, k)
    THEN Own(obj[CHOOSE i \in 1..Len(obj) : obj[i][1] = k][2])
    ELSE IF k \in ObjectPrototypeKeys THEN Inherited ELSE Undefined

Truthy(v) == v.tag # "undefined"

\* pick(obj || {}, keys)
Pick(v, keys) ==
    [k \in {x \in keys : x \in DOMAIN v.row} |-> v.row[k]]

-----------------------------------------------------------------------------
(* The working directory *)

\* process.cwd()
Cwd == "/work"

\* main: const requiredFiles
requiredFiles ==
    <<"PROJECTS_MANIFEST.csv", "PLAYWRIGHT_TESTS.csv", "WEBHOOKS.csv",
      "HTML_SITES.csv", "APPS.csv">>

ManifestFile == requiredFiles[1]
TestsFile == requiredFiles[2]
WebhooksFile == requiredFiles[3]
SitesFile == requiredFiles[4]
AppsFile == requiredFiles[5]
SecondaryFiles == {TestsFile, WebhooksFile, SitesFile, AppsFile}

\* nodes: a readable file with its content, a file that cannot be read, a
\* directory, a directory in which nothing can be created
File(fmt, body) == [kind |-> "file", fmt |-> fmt, body |-> body]
CsvFile(rows) == File("csv", rows)
EnvFile(lines) == File("env", lines)
JunkFile == File("junk", <<>>)
\* a CSV text with a broken record after the given well-formed ones
BrokenCsv(rows) == File("broken_csv", rows)
LockedFile == [kind |-> "locked", fmt |-> "", body |-> <<>>]
Dir == [kind |-> "dir", fmt |-> "", body |-> <<>>]
ReadOnlyDir == [kind |-> "dir_ro", fmt |-> "", body |-> <<>>]

IsDir(node) == node.kind \in {"dir", "dir_ro"}

\* path.join(process.cwd(), f), relative to the working directory
CsvPath(f) == <<f>>

\* the segments of a project identifier taken as a piece of a path: it is
\* split at the separators (the identifiers of the model that hold one, and
\* the empty identifier, are listed)
Segments(id) ==
    CASE id = "" -> <<>>
      [] id = "../x" -> <<"..", "x">>
      [] id = "x/y" -> <<"x", "y">>
      [] OTHER -> <<id>>

\* path.join normalises: a ".." segment takes back the segment before it
RECURSIVE NormalizeFrom(_, _, _)
NormalizeFrom(segs, i, acc) ==
    IF i > Len(segs) THEN acc
    ELSE NormalizeFrom(segs, i + 1,
             IF segs[i] = ".."
             THEN IF acc # <<>> /\ acc[Len(acc)] # ".."
                  THEN SubSeq(acc, 1, Len(acc) - 1)
                  ELSE Append(acc, "..")
             ELSE Append(acc, segs[i]))

\* path.join(process.cwd(), ...segs), relative to the working directory
PathJoin(segs) == NormalizeFrom(segs, 1, <<>>)

\* envPathForProject(projectId)
envPathForProject(projectId) ==
    PathJoin(<<"secrets">> \o Segments(projectId) \o <<".env">>)

\* an existence test that asks for read access (R_OK): a directory or an
\* unreadable file counts as absent
fileExistsReadable(d, p) == p \in DOMAIN d /\ d[p].kind = "file"

\* fileExists(p): fs.access(p) resolves for any node that exists
fileExists(d, p) == p \in DOMAIN d

\* fs.readFile(p, 'utf8') resolves for a readable regular file only
CanRead(d, p) == p \in DOMAIN d /\ d[p].kind = "file"

Ok(v) == [ok |-> TRUE, value |-> v]
Throws == [ok |-> FALSE, value |-> <<>>]

\* CsvParse that keeps the well-formed records of a broken text
CsvParseRelaxed(node) ==
    IF node.fmt \in {"csv", "broken_csv"} THEN Ok(node.body) ELSE Throws

\* parse(text, { columns: true, skip_empty_lines: true }): the records of a
\* well-formed CSV text, an exception for any other text
CsvParse(node) == IF node.fmt = "csv" THEN Ok(node.body) ELSE Throws

\* readCsvSync(filePath): a promise of the rows, rejected when the file
\* cannot be read or parsed
readCsvSync(d, p) == IF CanRead(d, p) THEN CsvParse(d[p]) ELSE Throws

\* (await readCsvSync(...).catch(() => []))
ReadOrEmpty(d, p) == LET r == readCsvSync(d, p) IN IF r.ok THEN r.value ELSE <<>>

\* dotenv.parse(envContent): the KEY=value lines as an object; comment lines
\* and lines that are no assignment are skipped
RECURSIVE DotenvFrom(_, _, _)
DotenvFrom(lines, i, obj) ==
    IF i > Len(lines) THEN obj
    ELSE DotenvFrom(lines, i + 1,
             IF lines[i].key = "" THEN obj
             ELSE SetProp(obj, lines[i].key, lines[i].value))

DotenvParse(node) == IF node.fmt = "env" THEN DotenvFrom(node.body, 1, <<>>) ELSE <<>>

\* loadEnvIfExists that reports the values of the variables, not their names
loadEnvValues(d, projectId) ==
    LET envPath == envPathForProject(projectId)
    IN  IF fileExists(d, envPath)
        THEN IF CanRead(d, envPath)
             THEN LET parsed == DotenvParse(d[envPath])
                  IN  Ok([envPath |-> <<Cwd>> \o envPath, present |-> TRUE,
                          vars |-> [i \in 1..Len(parsed) |-> parsed[i][2]]])
             ELSE Throws
        ELSE Ok([envPath |-> <<Cwd>> \o envPath, present |-> FALSE, vars |-> <<>>])

\* loadEnvIfExists that reports the file as present when it is absent
loadEnvPresentAlways(d, projectId) ==
    LET envPath == envPathForProject(projectId)
    IN  IF fileExists(d, envPath)
        THEN IF CanRead(d, envPath)
             THEN Ok([envPath |-> <<Cwd>> \o envPath, present |-> TRUE,
                      vars |-> ObjectKeys(DotenvParse(d[envPath]))])
             ELSE Throws
        ELSE Ok([envPath |-> <<Cwd>> \o envPath, present |-> TRUE, vars |-> <<>>])

\* loadEnvIfExists(projectId)
loadEnvIfExists(d, projectId) ==
    LET envPath == envPathForProject(projectId)
    IN  IF fileExists(d, envPath)
        THEN IF CanRead(d, envPath)
             THEN Ok([envPath |-> <<Cwd>> \o envPath, present |-> TRUE,
                      vars |-> ObjectKeys(DotenvParse(d[envPath]))])
             ELSE Throws
        ELSE Ok([envPath |-> <<Cwd>> \o envPath, present |-> FALSE, vars |-> <<>>])

\* fs.mkdir(p, { recursive: true }): every missing directory of p is
\* created, from the top; it fails on a component that is no directory and
\* below a directory that cannot be written
Parent(p) == SubSeq(p, 1, Len(p) - 1)

RECURSIVE MkdirFrom(_, _, _)
MkdirFrom(d, p, i) ==
    IF i > Len(p) THEN Ok(d)
    ELSE LET q == SubSeq(p, 1, i)
         IN  IF q \in DOMAIN d
             THEN IF IsDir(d[q]) THEN MkdirFrom(d, p, i + 1) ELSE Throws
             ELSE IF Parent(q) \in DOMAIN d /\ d[Parent(q)].kind = "dir_ro"
                  THEN Throws
                  ELSE MkdirFrom((q :> Dir) @@ d, p, i + 1)

\* a mkdir without the recursive option: an existing path is an error
MkdirExclusive(d, p) == IF p \in DOMAIN d THEN Throws ELSE MkdirFrom(d, p, 1)

Mkdir(d, p) == MkdirFrom(d, p, 1)

-----------------------------------------------------------------------------
(* main(): planning *)

\* IsDryRun without its first disjunct
IsDryRunApplyOnly(a) == ~("--apply" \in a)

\* const isDryRun = args.includes('--dry-run') || !args.includes('--apply')
IsDryRun(a) == ("--dry-run" \in a) \/ ~("--apply" \in a)

\* a discovery that counts a file as present only when it can be read
DiscoverReadable(d) == SelectSeq(requiredFiles, LAMBDA f : CanRead(d, CsvPath(f)))

\* the files of requiredFiles that exist, in the order of requiredFiles
Discover(d) == SelectSeq(requiredFiles, LAMBDA f : fileExists(d, CsvPath(f)))

\* MissingOf without the negation
MissingOfPresent(present) ==
    SelectSeq(requiredFiles, LAMBDA f : \E i \in 1..Len(present) : present[i] = f)

\* requiredFiles.filter(f => !presentFiles.includes(f))
MissingOf(present) ==
    SelectSeq(requiredFiles, LAMBDA f : ~(\E i \in 1..Len(present) : present[i] = f))

\* the five awaited reads, each with its .catch(() => [])
ReadTables(d) == [f \in {requiredFiles[i] : i \in 1..Len(requiredFiles)} |->
                     ReadOrEmpty(d, CsvPath(f))]

byId == FromEntries(tables[ManifestFile])
testsById == FromEntries(tables[TestsFile])
\* the webhooks index built from the rows of the tests table
hooksByIdFromTests == FromEntries(tables[TestsFile])

hooksById == FromEntries(tables[WebhooksFile])
sitesById == FromEntries(tables[SitesFile])
appsById == FromEntries(tables[AppsFile])

Check(kind, ok, details) == [kind |-> kind, ok |-> ok, details |-> details]

\* a branch that appends its actions only when the row was found
TypedPartGated(type, wanted, index, projectId, kind, keys, actions) ==
    IF type = wanted
    THEN LET t == GetProp(index, projectId)
         IN  [checks |-> <<Check(kind, Truthy(t), Pick(t, keys))>>,
              actions |-> IF Truthy(t) THEN actions ELSE <<>>]
    ELSE [checks |-> <<>>, actions |-> <<>>]

\* the check and the actions of one type-specific branch
TypedPart(type, wanted, index, projectId, kind, keys, actions) ==
    IF type = wanted
    THEN LET t == GetProp(index, projectId)
         IN  [checks |-> <<Check(kind, Truthy(t), Pick(t, keys))>>,
              actions |-> actions]
    ELSE [checks |-> <<>>, actions |-> <<>>]

\* `configure deploy: ${meta.deploy_target}`, when meta.deploy_target is truthy
DeployActions(meta) ==
    IF meta.deploy_target # ""
    THEN <<"configure deploy: " \o meta.deploy_target>>
    ELSE <<>>

\* if (appsById[projectId]) plan.actions.push(...)
AppActions(projectId) ==
    IF Truthy(GetProp(appsById, projectId))
    THEN <<"prepare app release pipeline">>
    ELSE <<>>

\* one iteration of the for..of loop, given the result of the env probe
PlanOf(projectId, envInfo) ==
    LET meta == GetProp(byId, projectId).row
        type == meta.type
        pw == TypedPart(type, "playwright_tests", testsById, projectId, "tests_row",
                        {"url", "browsers", "devices"},
                        <<"scaffold Playwright config and tests",
                          "wire CI to run on PR and nightly">>)
        hs == TypedPart(type, "html_site", sitesById, projectId, "html_row",
                        {"build_tool", "i18n_locales"},
                        <<"scaffold HTML site with chosen build tool">>
                            \o DeployActions(meta))
        wh == TypedPart(type, "webhook", hooksById, projectId, "webhook_row",
                        {"provider", "endpoint_url"},
                        <<"validate signing secret and subscribe events",
                          "provision DLQ and retries">>)
    IN  [projectId |-> projectId,
         type |-> type,
         checks |-> <<Check("env", envInfo.present, envInfo)>>
                        \o pw.checks \o hs.checks \o wh.checks,
         actions |-> pw.actions \o hs.actions \o wh.actions \o AppActions(projectId)]

\* a summary document without the project count
SummaryWithoutCount ==
    [missingFiles |-> missing,
     presentFiles |-> presentFiles,
     plans |-> plans]

\* a summary document that counts the rows of the manifest
SummaryCountsRows ==
    [missingFiles |-> missing,
     presentFiles |-> presentFiles,
     totalProjects |-> Len(tables[ManifestFile]),
     plans |-> plans]

\* const summary
Summary ==
    [missingFiles |-> missing,
     presentFiles |-> presentFiles,
     totalProjects |-> Len(projectIds),
     plans |-> plans]

\* a base list that leaves out the imports directory
toEnsureNoImports == <<"secrets", "content", "assets">>

\* main: const toEnsure
toEnsure == <<"secrets", "content", "assets", "imports">>

\* the mkdir calls of the apply step, in the order main() issues them
RECURSIVE ProjectDirs(_, _)
ProjectDirs(ids, i) ==
    IF i > Len(ids) THEN <<>>
    ELSE << PathJoin(<<"secrets">> \o Segments(ids[i])),
            PathJoin(<<"content">> \o Segments(ids[i])),
            PathJoin(<<"assets">> \o Segments(ids[i])) >>
             \o ProjectDirs(ids, i + 1)

\* the mkdir calls with the per-project directories ahead of the base list
ApplyDirsProjectsFirst ==
    ProjectDirs(projectIds, 1) \o [i \in 1..Len(toEnsure) |-> <<toEnsure[i]>>]

ApplyDirs == [i \in 1..Len(toEnsure) |-> <<toEnsure[i]>>] \o ProjectDirs(projectIds, 1)

-----------------------------------------------------------------------------
(* Input snapshots *)

Row(id, type, target) == [project_id |-> id, type |-> type, deploy_target |-> target]

\* rows of the secondary CSVs: the columns the planner picks, and one it drops
SecRow(f, id, v) ==
    CASE f = TestsFile ->
           [project_id |-> id, url |-> v, browsers |-> "chromium",
            devices |-> "desktop", notes |-> "n"]
      [] f = WebhooksFile ->
           [project_id |-> id, provider |-> v, endpoint_url |-> "https://hook",
            notes |-> "n"]
      [] f = SitesFile ->
           [project_id |-> id, build_tool |-> v, i18n_locales |-> "en",
            notes |-> "n"]
      [] OTHER ->
           [project_id |-> id, platform |-> v, notes |-> "n"]

\* lines of a secrets file: an assignment, or a line dotenv skips (key "")
EnvLine(k, v) == [key |-> k, value |-> v]
SecretValues == {"s1", "s2"}
OtherSecret(v) == IF v = "s1" THEN "s2" ELSE "s1"

\* sequences over S of length at most n
BoundedSeq(S, n) == UNION {[1..k -> S] : k \in 0..n}

\* the working directory holding the given <<path, node>> pairs
FsOf(pairs) == [p \in {x[1] : x \in pairs} |-> (CHOOSE x \in pairs : x[1] = p)[2]]

\* manifest rows: every identifier with the generic type, every type for one
\* identifier, and an html_site with each deploy target
ManifestRows ==
    {Row(id, "app", "") : id \in Ids}
        \cup {Row("a", t, "") : t \in Types}
        \cup {Row("a", "html_site", d) : d \in DeployTargets}

\* the primary manifest: absent (no pair), unreadable, unparsable, or rows
ManifestChoices ==
    {{}} \cup {{<<CsvPath(ManifestFile), n>>} :
                  n \in {BrokenCsv(<<Row("a", "app", "")>>), LockedFile}}
         \cup {{<<CsvPath(ManifestFile), CsvFile(rows)>>} :
                  rows \in BoundedSeq(ManifestRows, MaxRows)}

\* a secondary CSV: absent, unparsable, empty, one row, or two rows for the
\* same project (in both orders of their values), or a row of a stray project
SecondaryChoices(f, id) ==
    {{}} \cup {{<<CsvPath(f), n>>} :
                  n \in {BrokenCsv(<<SecRow(f, id, "v1")>>),
                         CsvFile(<<>>),
                         CsvFile(<<SecRow(f, id, "v1")>>),
                         CsvFile(<<SecRow(f, id, "v1"), SecRow(f, id, "v2")>>),
                         CsvFile(<<SecRow(f, id, "v2"), SecRow(f, id, "v1")>>),
                         CsvFile(<<SecRow(f, StrayId, "v2"), SecRow(f, id, "v1")>>)}}

\* the secrets file of a project: absent, empty, comment only, one or two
\* assignments, unreadable, or a directory in its place
EnvChoices(id) ==
    {{}} \cup {{<<<<"secrets">>, Dir>>, <<<<"secrets", id>>, Dir>>,
                <<envPathForProject(id), n>>} :
                  n \in {EnvFile(<<>>),
                         EnvFile(<<EnvLine("", "")>>),
                         JunkFile,
                         LockedFile,
                         Dir}
                    \cup {EnvFile(<<EnvLine("TOKEN", v)>>) : v \in SecretValues}
                    \cup {EnvFile(<<EnvLine("TOKEN", v), EnvLine("", ""),
                                    EnvLine("USER", w)>>) :
                             v \in SecretValues, w \in SecretValues}}

\* what may stand in the way of the apply step
ObstacleChoices ==
    {{}, {<<<<"imports">>, Dir>>}, {<<<<"content">>, JunkFile>>},
     {<<<<"assets">>, ReadOnlyDir>>}}

\* every secondary CSV holding a row for each of the identifiers given
SecondaryAll(ids) ==
    {<<CsvPath(f), CsvFile([i \in 1..Len(ids) |-> SecRow(f, ids[i], "v1")])>> :
        f \in SecondaryFiles}

\* snapshots that vary the primary manifest, for two orders of the rows of
\* the secondary CSVs
ManifestSnapshots ==
    {FsOf(m \cup s) : m \in ManifestChoices,
                     s \in {SecondaryAll(<<"a", "1">>), SecondaryAll(<<"1", "a">>)}}

\* the tables of the specific types other than that of f, with a row for
\* each of ids
OtherTables(f, ids) ==
    {x \in SecondaryAll(ids) : x[1] \notin {CsvPath(f), CsvPath(AppsFile)}}

\* snapshots that vary the secondary CSVs of one project of each specific
\* type: its own table, the apps table, and the two tables of the other types
\* (absent, with a row for the project, or empty)
SecondarySnapshots ==
    UNION {{FsOf({<<CsvPath(ManifestFile), CsvFile(<<Row(id, tf[1], "vercel")>>)>>}
                  \cup own \cup apps \cup other) :
               own \in SecondaryChoices(tf[2], id),
               apps \in {{}, {<<CsvPath(AppsFile), CsvFile(<<SecRow(AppsFile, id, "v1")>>)>>}},
               other \in {{}, OtherTables(tf[2], <<id>>), OtherTables(tf[2], <<>>)}} :
           tf \in {<<"playwright_tests", TestsFile>>,
                   <<"html_site", SitesFile>>,
                   <<"webhook", WebhooksFile>>},
           id \in {"a", "constructor"}}

\* snapshots that vary the secrets file of one of two projects and the
\* obstacles of the apply step
SecretsSnapshots ==
    {FsOf({<<CsvPath(ManifestFile),
             CsvFile(<<Row("b", "app", ""), Row("a", "html_site", "")>>)>>}
          \cup SecondaryAll(<<"a">>) \cup e \cup o) :
        e \in EnvChoices("a"), o \in ObstacleChoices}

\* snapshots without a primary manifest
EmptySnapshots == {FsOf(o) : o \in ObstacleChoices}

\* snapshots whose manifest repeats an identifier around the row of another
\* project, with another type and deploy target in the later row
RepeatSnapshots ==
    {FsOf({<<CsvPath(ManifestFile),
             CsvFile(<<Row("a", "html_site", "vercel"), Row(other, "app", ""),
                       Row("a", "webhook", "")>>)>>}
          \cup SecondaryAll(<<"a">>)) :
        other \in {"b", "1"}}

\* identifiers that are empty or hold a separator or a ".." segment
PathIds == {"", "../x", "x/y"}

\* snapshots with one project whose identifier is no plain name, with or
\* without a directory x that holds a .env file
PathSnapshots ==
    {FsOf({<<CsvPath(ManifestFile), CsvFile(<<Row(id, "app", "")>>)>>} \cup e) :
        id \in PathIds,
        e \in {{}, {<<<<"x">>, Dir>>,
                    <<<<"x", ".env">>, EnvFile(<<EnvLine("TOKEN", "s1")>>)>>}}}

Snapshots ==
    ManifestSnapshots \cup SecondarySnapshots \cup SecretsSnapshots
        \cup EmptySnapshots \cup RepeatSnapshots \cup PathSnapshots

\* prev: ran for a finished dry run, applied for a finished apply run, with
\* the snapshot that run started from and what it printed
NoPrev == [ran |-> FALSE, applied |-> FALSE, snap |-> <<>>, out |-> <<>>]

Init ==
    /\ fs \in Snapshots
    /\ pc = "idle"
    /\ args = {}
    /\ isDryRun = TRUE
    /\ presentFiles = <<>>
    /\ missing = <<>>
    /\ tables = [f \in {requiredFiles[i] : i \in 1..Len(requiredFiles)} |-> <<>>]
    /\ projectIds = <<>>
    /\ plans = <<>>
    /\ cursor = 0
    /\ stdout = <<>>
    /\ stderr = <<>>
    /\ exitCode = -1
    /\ made = 0
    /\ snap = fs
    /\ prev = NoPrev
    /\ edited = FALSE
    /\ reruns = 0

-----------------------------------------------------------------------------
(* main(): the steps of one run *)

\* a rejection handler that swallows the error and lets the process end
\* normally
CrashSilent ==
    /\ pc' = "failed"
    /\ stderr' = stderr
    /\ exitCode' = 0

\* main().catch(err => { console.error(err); process.exit(1); })
Crash ==
    /\ pc' = "failed"
    /\ stderr' = Append(stderr, "error")
    /\ exitCode' = 1

\* a new process: lines 80-97, flags and file discovery (after an edit the
\* operator starts at most MaxReruns runs, all of them dry runs)
Start(a) ==
    /\ pc \in {"idle", "done", "failed"}
    /\ edited => (reruns < MaxReruns /\ IsDryRun(a))
    /\ reruns' = IF edited THEN reruns + 1 ELSE reruns
    /\ args' = a
    /\ isDryRun' = IsDryRun(a)
    /\ presentFiles' = Discover(fs)
    /\ missing' = MissingOf(presentFiles')
    /\ tables' = [f \in DOMAIN tables |-> <<>>]
    /\ projectIds' = <<>>
    /\ plans' = <<>>
    /\ cursor' = 0
    /\ stdout' = <<>>
    /\ stderr' = <<>>
    /\ exitCode' = -1
    /\ made' = 0
    /\ snap' = fs
    /\ prev' = IF pc = "done"
               THEN [ran |-> isDryRun, applied |-> ~isDryRun, snap |-> snap,
                     out |-> stdout]
               ELSE NoPrev
    /\ pc' = "ingest"
    /\ UNCHANGED <<fs, edited>>

\* Ingest with the project ids taken in an arbitrary order
IngestAnyOrder ==
    /\ pc = "ingest"
    /\ args' = {}
    /\ tables' = ReadTables(fs)
    /\ LET keys == ObjectKeys(FromEntries(tables'[ManifestFile]))
       IN  projectIds' \in {[i \in 1..Len(keys) |-> keys[f[i]]] :
                               f \in {g \in [1..Len(keys) -> 1..Len(keys)] :
                                         \A x, y \in 1..Len(keys) : g[x] = g[y] => x = y}}
    /\ plans' = <<>>
    /\ cursor' = 1
    /\ pc' = IF Len(projectIds') = 0 THEN "report" ELSE "plan"
    /\ UNCHANGED <<fs, isDryRun, presentFiles, missing, stdout, stderr,
                   exitCode, made, snap, prev, edited, reruns>>

\* lines 99-116: the five reads, the indexes, the list of project ids
Ingest ==
    /\ pc = "ingest"
    /\ args' = {}
    /\ tables' = ReadTables(fs)
    /\ projectIds' = ObjectKeys(FromEntries(tables'[ManifestFile]))
    /\ plans' = <<>>
    /\ cursor' = 1
    /\ pc' = IF Len(projectIds') = 0 THEN "report" ELSE "plan"
    /\ UNCHANGED <<fs, isDryRun, presentFiles, missing, stdout, stderr,
                   exitCode, made, snap, prev, edited, reruns>>

\* lines 117-152: one iteration of the loop over projectIds
PlanProject ==
    /\ pc = "plan"
    /\ LET r == loadEnvIfExists(fs, projectIds[cursor])
       IN  /\ r.ok
           /\ plans' = Append(plans, PlanOf(projectIds[cursor], r.value))
    /\ cursor' = cursor + 1
    /\ pc' = IF cursor' > Len(projectIds) THEN "report" ELSE "plan"
    /\ UNCHANGED <<fs, args, isDryRun, presentFiles, missing, tables, projectIds,
                   stdout, stderr, exitCode, made, snap, prev, edited, reruns>>

\* line 123 rejects: the secrets path exists and cannot be read as a file
PlanThrows ==
    /\ pc = "plan"
    /\ ~loadEnvIfExists(fs, projectIds[cursor]).ok
    /\ Crash
    /\ UNCHANGED <<fs, args, isDryRun, presentFiles, missing, tables, projectIds,
                   plans, cursor, stdout, made, snap, prev, edited, reruns>>

\* lines 161-164: the dry run prints the summary and returns
Emit ==
    /\ pc = "report"
    /\ isDryRun
    /\ stdout' = Append(stdout, Summary)
    /\ exitCode' = 0
    /\ pc' = "done"
    /\ UNCHANGED <<fs, args, isDryRun, presentFiles, missing, tables, projectIds,
                   plans, cursor, stderr, made, snap, prev, edited, reruns>>

\* the apply step without the early return of the dry run
ApplyAlways == TRUE

\* lines 161-164: if (isDryRun) { ...; return; } guards the apply step
ApplyEnabled == ~isDryRun

\* lines 174-182: the next mkdir call of the apply step returns
MkdirStep ==
    /\ pc = "report"
    /\ ApplyEnabled
    /\ made < Len(ApplyDirs)
    /\ LET r == Mkdir(fs, ApplyDirs[made + 1])
       IN  /\ r.ok
           /\ fs' = r.value
    /\ made' = made + 1
    /\ UNCHANGED <<pc, args, isDryRun, presentFiles, missing, tables, projectIds,
                   plans, cursor, stdout, stderr, exitCode, snap, prev, edited, reruns>>

\* a rejected mkdir call that is tried again without end
MkdirRetries ==
    /\ pc = "report"
    /\ ApplyEnabled
    /\ made < Len(ApplyDirs)
    /\ ~Mkdir(fs, ApplyDirs[made + 1]).ok
    /\ UNCHANGED vars

\* lines 174-182: the next mkdir call of the apply step rejects
MkdirThrows ==
    /\ pc = "report"
    /\ ApplyEnabled
    /\ made < Len(ApplyDirs)
    /\ ~Mkdir(fs, ApplyDirs[made + 1]).ok
    /\ Crash
    /\ UNCHANGED <<fs, args, isDryRun, presentFiles, missing, tables, projectIds,
                   plans, cursor, stdout, made, snap, prev, edited, reruns>>

ConfirmLine ==
    "Apply step ensured base directories. Next steps: repo cloning and scaffolding."

\* line 184: the apply run prints its confirmation
Confirm ==
    /\ pc = "report"
    /\ ApplyEnabled
    /\ made = Len(ApplyDirs)
    /\ stdout' = Append(stdout, ConfirmLine)
    /\ exitCode' = 0
    /\ pc' = "done"
    /\ UNCHANGED <<fs, args, isDryRun, presentFiles, missing, tables, projectIds,
                   plans, cursor, stderr, made, snap, prev, edited, reruns>>

-----------------------------------------------------------------------------
(* The operator, between two runs *)

\* after a dry run, a secondary CSV that was absent appears, unreadable or
\* unparsable
BadCsvNodes(f) == {LockedFile, Dir, BrokenCsv(<<SecRow(f, "a", "v1")>>)}

CorruptCsv(f, node) ==
    /\ pc = "done"
    /\ isDryRun
    /\ ~edited
    /\ fs = snap
    /\ ~fileExists(fs, CsvPath(f))
    /\ fs' = (CsvPath(f) :> node) @@ fs
    /\ edited' = TRUE
    /\ UNCHANGED <<pc, args, isDryRun, presentFiles, missing, tables, projectIds,
                   plans, cursor, stdout, stderr, exitCode, made, snap, prev, reruns>>

\* after a dry run, every value of a secrets file is replaced; the names stay
RotateSecret(id) ==
    /\ pc = "done"
    /\ isDryRun
    /\ ~edited
    /\ fs = snap
    /\ CanRead(fs, envPathForProject(id))
    /\ fs[envPathForProject(id)].fmt = "env"
    /\ \E i \in 1..Len(fs[envPathForProject(id)].body) :
           fs[envPathForProject(id)].body[i].key # ""
    /\ fs' = [fs EXCEPT ![envPathForProject(id)].body =
                 [i \in 1..Len(@) |->
                     IF @[i].key = "" THEN @[i]
                     ELSE EnvLine(@[i].key, OtherSecret(@[i].value))]]
    /\ edited' = TRUE
    /\ UNCHANGED <<pc, args, isDryRun, presentFiles, missing, tables, projectIds,
                   plans, cursor, stdout, stderr, exitCode, made, snap, prev, reruns>>

\* the identifiers of the rows the operator appends
AppendIds == {"a", StrayId}

\* after a dry run, a row is written to a secondary CSV that had none
AppendRow(f, id) ==
    /\ pc = "done"
    /\ isDryRun
    /\ ~edited
    /\ fs = snap
    /\ CanRead(fs, CsvPath(f))
    /\ fs[CsvPath(f)].fmt = "csv"
    /\ fs[CsvPath(f)].body = <<>>
    /\ fs' = [fs EXCEPT ![CsvPath(f)].body = Append(@, SecRow(f, id, "v2"))]
    /\ edited' = TRUE
    /\ UNCHANGED <<pc, args, isDryRun, presentFiles, missing, tables, projectIds,
                   plans, cursor, stdout, stderr, exitCode, made, snap, prev, reruns>>

Next ==
    \/ \E a \in ArgLists : Start(a)
    \/ Ingest
    \/ PlanProject
    \/ PlanThrows
    \/ Emit
    \/ MkdirStep
    \/ MkdirThrows
    \/ Confirm
    \/ \E f \in SecondaryFiles : \E node \in BadCsvNodes(f) : CorruptCsv(f, node)
    \/ \E id \in Ids : RotateSecret(id)
    \/ \E f \in SecondaryFiles : \E id \in AppendIds : AppendRow(f, id)

Spec == Init /\ [][Next]_vars

\* the steps of a started run: main() is one chain of awaited promises, every
\* file operation settles, and the event loop runs the continuation
RunStep ==
    \/ Ingest
    \/ PlanProject
    \/ PlanThrows
    \/ Emit
    \/ MkdirStep
    \/ MkdirThrows
    \/ Confirm

\* Runs under fairness: a started run is not left waiting, while the operator
\* is free to start a run or not. The operator starts runs on the snapshots
\* whose size does not grow with MaxRows, and a run after a finished run is
\* not followed by a third.
LiveStart(a) == ~prev.ran /\ ~prev.applied /\ Start(a)

LiveNext == (\E a \in ArgLists : LiveStart(a)) \/ RunStep

LiveInit ==
    /\ Init
    /\ fs \in SecretsSnapshots \cup SecondarySnapshots \cup EmptySnapshots

FairSpec == LiveInit /\ [][LiveNext]_vars /\ WF_vars(RunStep)

-----------------------------------------------------------------------------
(* Properties *)

\* the rows of the primary manifest as the snapshot holds them (none when the
\* file is absent, unreadable or unparsable)
ManifestRowsIn(d) ==
    IF CsvPath(ManifestFile) \in DOMAIN d /\ d[CsvPath(ManifestFile)].kind = "file"
          /\ d[CsvPath(ManifestFile)].fmt = "csv"
    THEN d[CsvPath(ManifestFile)].body
    ELSE <<>>

IdsIn(rows) == {rows[i].project_id : i \in 1..Len(rows)}

\* the identifiers of rows, each at the place of its first row
RECURSIVE FirstOccurrences(_)
FirstOccurrences(rows) ==
    IF rows = <<>> THEN <<>>
    ELSE LET front == SubSeq(rows, 1, Len(rows) - 1)
             last == rows[Len(rows)].project_id
         IN  IF last \in IdsIn(front) THEN FirstOccurrences(front)
             ELSE Append(FirstOccurrences(front), last)

PlanIds(ps) == [i \in 1..Len(ps) |-> ps[i].projectId]

Planned == pc \in {"report", "done"}

DryDone == pc = "done" /\ isDryRun

\* C1: once planning is complete, plans holds exactly one plan for every
\* project_id that occurs in the primary manifest and none for any other
\* identifier, and the dry run prints exactly these plans
C1_OnePlanPerId ==
    /\ Planned =>
          \A id \in Ids \cup {StrayId} :
             Cardinality({i \in 1..Len(plans) : plans[i].projectId = id})
                = IF id \in IdsIn(ManifestRowsIn(snap)) THEN 1 ELSE 0
    /\ DryDone => stdout[1].plans = plans

\* C1 witness: a finished dry run on a manifest of two rows with one
\* array-index identifier, given twice
C1_Witness ==
    /\ DryDone
    /\ Len(ManifestRowsIn(snap)) = 2
    /\ IdsIn(ManifestRowsIn(snap)) = {"1"}
    /\ Len(stdout[1].plans) = 1

\* C2 (as claimed): plans lists the project identifiers in the order in which
\* their rows appear in the primary manifest
C2_ManifestOrder ==
    Planned => PlanIds(plans) = FirstOccurrences(ManifestRowsIn(snap))

\* C3: a dry run leaves the working directory as it found it, at every step
\* up to and including its end
C3_DryRunNoMutation ==
    (pc # "idle" /\ isDryRun /\ ~(edited /\ reruns = 0)) => fs = snap

\* C3 witness: a finished dry run with two projects whose directories do not
\* exist
C3_Witness ==
    /\ DryDone
    /\ ~edited
    /\ Len(projectIds) = 2
    /\ \A i \in 1..Len(projectIds) : <<"content", projectIds[i]>> \notin DOMAIN fs
    /\ <<"content">> \notin DOMAIN fs

C5_ApplyIffFlag ==
    pc = "ingest" => (~isDryRun <=> "--apply" \in args)

\* C5 (amended): the run is in apply mode exactly when --apply is among the
\* arguments and --dry-run is not
C5_ApplyIffFlagAlone ==
    pc = "ingest" => (~isDryRun <=> ("--apply" \in args /\ "--dry-run" \notin args))

\* C5 witness: both flags given, and the run is a dry run
C5_Witness ==
    /\ pc = "ingest"
    /\ {"--apply", "--dry-run"} \subseteq args
    /\ isDryRun

PrimaryOnly(d) ==
    /\ fileExists(d, CsvPath(ManifestFile))
    /\ \A f \in SecondaryFiles : ~fileExists(d, CsvPath(f))

SpecificTypes == {"playwright_tests", "html_site", "webhook"}

\* C6 (as claimed): when only the primary manifest exists the run does not
\* fail, missingFiles is the four secondary file names, and every project of
\* a specific type gets its row check with pass=false and empty details
C6_MissingFileTolerance ==
    (pc # "idle" /\ PrimaryOnly(snap)) =>
        /\ exitCode # 1
        /\ missing = <<TestsFile, WebhooksFile, SitesFile, AppsFile>>
        /\ Planned =>
              \A i \in 1..Len(plans) :
                 plans[i].type \in SpecificTypes =>
                    /\ Len(plans[i].checks) = 2
                    /\ ~plans[i].checks[2].ok
                    /\ plans[i].checks[2].details = <<>>

\* C6, for the projects whose identifier is no name inherited from
\* Object.prototype
C6_ExceptInheritedNames ==
    (pc # "idle" /\ PrimaryOnly(snap)) =>
        /\ exitCode # 1
        /\ missing = <<TestsFile, WebhooksFile, SitesFile, AppsFile>>
        /\ Planned =>
              \A i \in 1..Len(plans) :
                 (plans[i].type \in SpecificTypes
                     /\ plans[i].projectId \notin ObjectPrototypeKeys) =>
                    /\ Len(plans[i].checks) = 2
                    /\ ~plans[i].checks[2].ok
                    /\ plans[i].checks[2].details = <<>>

ManifestAbsent(d) == ~fileExists(d, CsvPath(ManifestFile))

InSeq(x, q) == \E i \in 1..Len(q) : q[i] = x

TopDirs == {<<toEnsure[i]>> : i \in 1..Len(toEnsure)}

\* C7: without a primary manifest the file is listed as missing, there is no
\* project and no plan, the dry run reports zero projects and ends normally,
\* and the apply run creates nothing but the four top-level directories, all
\* of which exist when it ends; the run can fail in the apply step only
C7_NoManifest ==
    (pc # "idle" /\ ManifestAbsent(snap)) =>
        /\ InSeq(ManifestFile, missing)
        /\ projectIds = <<>> /\ plans = <<>>
        /\ pc # "plan"
        /\ DryDone =>
              /\ stdout[1].totalProjects = 0
              /\ stdout[1].plans = <<>>
              /\ InSeq(ManifestFile, stdout[1].missingFiles)
              /\ exitCode = 0
        /\ pc = "failed" => (~isDryRun /\ made < Len(toEnsure))
        /\ ~isDryRun =>
              /\ (DOMAIN fs) \ (DOMAIN snap) \subseteq TopDirs
              /\ pc = "done" =>
                    /\ made = Len(toEnsure)
                    /\ \A p \in TopDirs : p \in DOMAIN fs /\ IsDir(fs[p])

\* C7 witness: a finished apply run without a primary manifest, in a working
\* directory that had no secrets directory
C7_Witness ==
    /\ ManifestAbsent(snap)
    /\ pc = "done"
    /\ ~isDryRun
    /\ <<"secrets">> \notin DOMAIN snap
    /\ <<"secrets">> \in DOMAIN fs

\* a required file that exists and cannot be read or parsed
Unusable(d, f) ==
    /\ fileExists(d, CsvPath(f))
    /\ ~(d[CsvPath(f)].kind = "file" /\ d[CsvPath(f)].fmt = "csv")

\* d2 is d1 with the absent file f added in an unusable state
MissingVsMalformed(d1, d2, f) ==
    /\ ~fileExists(d1, CsvPath(f))
    /\ Unusable(d2, f)
    /\ DOMAIN d2 = DOMAIN d1 \cup {CsvPath(f)}
    /\ \A p \in DOMAIN d1 : d1[p] = d2[p]

\* C8: a CSV that exists and cannot be read or parsed contributes no rows and
\* the run goes on to planning; a dry run on a snapshot in which a secondary
\* CSV is unusable prints the plans the dry run printed on the same snapshot
\* without that file
C8_FailSoft ==
    /\ pc \in {"plan", "report", "done", "failed"} =>
          /\ \A f \in DOMAIN tables : Unusable(snap, f) => tables[f] = <<>>
          /\ cursor >= 1
    /\ (DryDone /\ prev.ran
           /\ \E f \in SecondaryFiles : MissingVsMalformed(prev.snap, snap, f)) =>
          stdout[1].plans = prev.out[1].plans

\* C8 witness: the dry run of a playwright_tests project after its tests CSV,
\* absent before, appeared with a broken record
C8_Witness ==
    /\ DryDone
    /\ prev.ran
    /\ MissingVsMalformed(prev.snap, snap, TestsFile)
    /\ snap[CsvPath(TestsFile)].fmt = "broken_csv"
    /\ Len(plans) = 1
    /\ plans[1].type = "playwright_tests"
    /\ plans[1].projectId = "a"

\* C9 (as claimed): no state of a secrets file makes the run fail during
\* planning
C9_NoPlanningFailure ==
    pc = "failed" => cursor > Len(projectIds)

\* d with the values of every secrets file blanked
Redact(d) ==
    [p \in DOMAIN d |->
        IF d[p].fmt = "env"
        THEN [d[p] EXCEPT !.body = [i \in 1..Len(@) |-> EnvLine(@[i].key, "")]]
        ELSE d[p]]

\* C10: a dry run on a snapshot that differs from the one of the dry run
\* before it only in the values of secrets prints the same document, and the
\* env check of every plan lists no secret value
C10_NoSecretValues ==
    /\ (DryDone /\ prev.ran /\ prev.snap # snap
           /\ Redact(prev.snap) = Redact(snap)) => stdout = prev.out
    /\ Planned =>
          \A i \in 1..Len(plans) :
             \A j \in 1..Len(plans[i].checks[1].details.vars) :
                plans[i].checks[1].details.vars[j] \notin SecretValues

\* C10 witness: the dry run after the two secrets of a project were replaced
C10_Witness ==
    /\ DryDone
    /\ prev.ran
    /\ prev.snap # snap
    /\ Redact(prev.snap) = Redact(snap)
    /\ \E i \in 1..Len(plans) :
          plans[i].checks[1].details.vars = <<"TOKEN", "USER">>

-----------------------------------------------------------------------------
(* The apply step *)

ApplyDone == pc = "done" /\ ~isDryRun

\* the directories an apply run on snapshot d has to leave behind
ExpectedDirs(d) ==
    {<<"secrets">>, <<"content">>, <<"assets">>, <<"imports">>}
       \cup {PathJoin(<<top>> \o Segments(id)) :
                 top \in {"secrets", "content", "assets"},
                 id \in IdsIn(ManifestRowsIn(d))}

\* C11: only an apply run ensures directories: a dry run issues no mkdir call,
\* an apply run adds nothing but directories it has to ensure (and those on
\* the way to them), and when an
\* apply run ends normally the four top-level directories and, for every
\* project of the manifest, secrets/<id>, content/<id> and assets/<id> exist
C11_EnsuredIffApply ==
    /\ (pc # "idle" /\ isDryRun) => made = 0
    /\ (pc # "idle" /\ ~isDryRun) =>
          \A p \in (DOMAIN fs) \ (DOMAIN snap) :
             /\ IsDir(fs[p])
             /\ \E q \in ExpectedDirs(snap) :
                   Len(p) <= Len(q) /\ SubSeq(q, 1, Len(p)) = p
    /\ ApplyDone =>
          \A p \in ExpectedDirs(snap) : p \in DOMAIN fs /\ IsDir(fs[p])

\* C11 witness: a finished apply run for two projects in a working directory
\* that had none of the directories
C11_Witness ==
    /\ ApplyDone
    /\ Cardinality(IdsIn(ManifestRowsIn(snap))) = 2
    /\ ExpectedDirs(snap) \cap DOMAIN snap = {}
    /\ Cardinality(ExpectedDirs(snap)) = 10
    /\ ExpectedDirs(snap) \subseteq DOMAIN fs

DirsOf(d) == {p \in DOMAIN d : IsDir(d[p])}

\* C12: an apply run that follows a finished apply run on the same manifest
\* raises no error at any step, and the set of directories stays the one the
\* first run left (snap is the working directory as the first run left it)
C12_ApplyIdempotent ==
    (pc # "idle" /\ ~isDryRun /\ prev.applied
        /\ ManifestRowsIn(prev.snap) = ManifestRowsIn(snap)) =>
        /\ pc # "failed"
        /\ stderr = <<>>
        /\ DirsOf(fs) = DirsOf(snap)
        /\ ApplyDone => exitCode = 0

\* C12 witness: the second of two finished apply runs for one manifest with a
\* project, the first of which had directories to create
C12_Witness ==
    /\ ApplyDone
    /\ prev.applied
    /\ ManifestRowsIn(prev.snap) = ManifestRowsIn(snap)
    /\ Len(projectIds) >= 1
    /\ DirsOf(prev.snap) # DirsOf(snap)
    /\ made = Len(ApplyDirs)

\* the run ended by a rejected mkdir call (planning had completed)
ApplyFailed == pc = "failed" /\ ~isDryRun /\ cursor > Len(projectIds)

\* C13: when a mkdir call of the apply step fails, the error is printed, the
\* exit status is non-zero, no confirmation line (nothing at all) is printed
\* on standard output, and the working directory holds the directories of the
\* calls before the failing one and no other new path
C13_MkdirFailurePropagates ==
    ApplyFailed =>
        /\ stderr # <<>>
        /\ exitCode > 0
        /\ stdout = <<>>
        /\ made < Len(ApplyDirs)
        /\ ~Mkdir(fs, ApplyDirs[made + 1]).ok
        /\ (DOMAIN fs) \ (DOMAIN snap) \subseteq {ApplyDirs[i] : i \in 1..made}
        /\ \A i \in (made + 1)..Len(ApplyDirs) :
              ApplyDirs[i] \in DOMAIN fs => ApplyDirs[i] \in DOMAIN snap

\* C13 witness: an apply run that created a directory and then failed on a
\* later mkdir call, with more calls still to come
C13_Witness ==
    /\ ApplyFailed
    /\ made >= 1
    /\ (DOMAIN fs) \ (DOMAIN snap) # {}
    /\ made + 1 < Len(ApplyDirs)
    /\ ApplyDirs[made + 2] \notin DOMAIN fs

-----------------------------------------------------------------------------
(* Output *)

Running == pc \in {"ingest", "plan", "report"}

\* C14: a run prints nothing before its end; a dry run that ends normally has
\* printed exactly one document, with exactly the fields missingFiles,
\* presentFiles, totalProjects and plans, and nothing on the error stream; an
\* apply run that ends normally has printed the confirmation line and nothing
\* else
C14_OutputContract ==
    /\ Running => (stdout = <<>> /\ stderr = <<>>)
    /\ DryDone =>
          /\ Len(stdout) = 1
          /\ DOMAIN stdout[1]
                = {"missingFiles", "presentFiles", "totalProjects", "plans"}
          /\ stdout[1].missingFiles = missing
          /\ stdout[1].presentFiles = presentFiles
          /\ stdout[1].totalProjects = Len(projectIds)
          /\ stdout[1].plans = plans
          /\ stderr = <<>>
    /\ ApplyDone => (stdout = <<ConfirmLine>> /\ stderr = <<>>)

\* C14 witness: a finished apply run that printed the confirmation line, right
\* after a dry run that printed one document for one project with files
\* missing
C14_Witness ==
    /\ ApplyDone
    /\ stdout = <<ConfirmLine>>
    /\ prev.ran
    /\ Len(prev.out) = 1
    /\ prev.out[1].totalProjects = 1
    /\ Len(prev.out[1].plans) = 1
    /\ prev.out[1].missingFiles # <<>>

-----------------------------------------------------------------------------
(* The type-specific checks *)

\* the rows of a CSV file as the snapshot holds them (none when the file is
\* absent, unreadable or unparsable)
RowsIn(d, f) ==
    IF CsvPath(f) \in DOMAIN d /\ d[CsvPath(f)].kind = "file"
          /\ d[CsvPath(f)].fmt = "csv"
    THEN d[CsvPath(f)].body
    ELSE <<>>

\* the secondary file and the reported columns of a specific type
SecondaryOf(type) ==
    CASE type = "playwright_tests" -> TestsFile
      [] type = "html_site" -> SitesFile
      [] OTHER -> WebhooksFile

ReportedColumns(type) ==
    CASE type = "playwright_tests" -> {"url", "browsers", "devices"}
      [] type = "html_site" -> {"build_tool", "i18n_locales"}
      [] OTHER -> {"provider", "endpoint_url"}

RowsFor(rows, id) == {i \in 1..Len(rows) : rows[i].project_id = id}

\* the last row of rows that carries the identifier
LastRowFor(rows, id) ==
    rows[CHOOSE i \in RowsFor(rows, id) : \A j \in RowsFor(rows, id) : j <= i]

\* C15: when the secondary file of a project's type has rows for its
\* identifier, the type-specific check passes and its details are the
\* reported columns of the last of these rows, wherever the rows stand
C15_LastWriteWins ==
    Planned =>
        \A i \in 1..Len(plans) :
           LET p == plans[i]
               rows == RowsIn(snap, SecondaryOf(p.type))
           IN  (p.type \in SpecificTypes /\ RowsFor(rows, p.projectId) # {}) =>
                  /\ Len(p.checks) = 2
                  /\ p.checks[2].ok
                  /\ p.checks[2].details
                        = [k \in ReportedColumns(p.type) |->
                              LastRowFor(rows, p.projectId)[k]]

\* C15 witness: a plan whose secondary file has two rows for the project,
\* with url v2 and then url v1, and the check carries v1
C15_Witness ==
    /\ Planned
    /\ Len(plans) = 1
    /\ plans[1].type = "playwright_tests"
    /\ LET rows == RowsIn(snap, TestsFile)
       IN  /\ Len(rows) = 2
           /\ RowsFor(rows, plans[1].projectId) = {1, 2}
           /\ rows[1].url = "v2" /\ rows[2].url = "v1"
           /\ plans[1].checks[2].details.url = "v1"

-----------------------------------------------------------------------------
(* Termination *)

\* the ways a run ends: the plan document printed, the confirmation printed,
\* or the error printed with exit status 1
PlanEmitted == DryDone /\ Len(stdout) = 1 /\ exitCode = 0
ConfirmEmitted == ApplyDone /\ stdout = <<ConfirmLine>> /\ exitCode = 0
ErrorExit == pc = "failed" /\ exitCode = 1 /\ stderr # <<>>

\* C16: every started run reaches a final state: the plan emitted, the
\* confirmation emitted, or the error exit
C16_Terminates == Running ~> (PlanEmitted \/ ConfirmEmitted \/ ErrorExit)

\* C16 witness: a run that went through the planning of two projects and six
\* mkdir calls and then ended in the error exit
C16_Witness ==
    /\ ErrorExit
    /\ Len(plans) = 2
    /\ made >= 6

-----------------------------------------------------------------------------
(* The env check *)

\* secrets/<id>/.env, as the file system resolves it
SecretsPath(id) == PathJoin(<<"secrets">> \o Segments(id) \o <<".env">>)

\* the variable names a secrets file assigns, each once, in file order
RECURSIVE NamesIn(_)
NamesIn(lines) ==
    IF lines = <<>> THEN <<>>
    ELSE LET front == NamesIn(SubSeq(lines, 1, Len(lines) - 1))
             k == lines[Len(lines)].key
         IN  IF k = "" \/ InSeq(k, front) THEN front ELSE Append(front, k)

NamesOf(node) == IF node.fmt = "env" THEN NamesIn(node.body) ELSE <<>>

\* C17: every plan, whatever its type, starts with a check of kind env and
\* has no other; the check passes exactly when secrets/<id>/.env exists in
\* the working directory the run plans on, and when it passes its details
\* list the names of the variables the file assigns
C17_EnvCheckFirst ==
    \A i \in 1..Len(plans) :
       LET p == plans[i]
           path == SecretsPath(p.projectId)
       IN  /\ Len(p.checks) >= 1
           /\ p.checks[1].kind = "env"
           /\ \A j \in 2..Len(p.checks) : p.checks[j].kind # "env"
           /\ p.checks[1].ok <=> path \in DOMAIN snap
           /\ p.checks[1].ok => p.checks[1].details.vars = NamesOf(snap[path])

\* C17 witness: a plan of a typed project whose secrets file assigns two
\* variables, next to a plan of an app project that has no secrets file
C17_Witness ==
    /\ Planned
    /\ Len(plans) = 2
    /\ plans[1].type = "app"
    /\ ~plans[1].checks[1].ok
    /\ plans[2].type = "html_site"
    /\ plans[2].checks[1].ok
    /\ plans[2].checks[1].details.vars = <<"TOKEN", "USER">>

NoSecretsFile(d, id) == SecretsPath(id) \notin DOMAIN d

\* C18 (as claimed): a project without secrets/<id>/.env gets the env check
\* with pass=false and empty details, and the run goes on
C18_EmptyDetails ==
    \A i \in 1..Len(plans) :
       NoSecretsFile(snap, plans[i].projectId) =>
          /\ ~plans[i].checks[1].ok
          /\ DOMAIN plans[i].checks[1].details = {}

\* C18 (amended): a project without secrets/<id>/.env gets the env check with
\* pass=false and details that hold the probed path, present=false and an
\* empty list of variable names, and nothing else; the run does not fail on
\* that project
C18_EmptyVars ==
    /\ \A i \in 1..Len(plans) :
          NoSecretsFile(snap, plans[i].projectId) =>
             /\ plans[i].checks[1].kind = "env"
             /\ ~plans[i].checks[1].ok
             /\ DOMAIN plans[i].checks[1].details = {"envPath", "present", "vars"}
             /\ plans[i].checks[1].details.envPath
                   = <<Cwd>> \o SecretsPath(plans[i].projectId)
             /\ plans[i].checks[1].details.present = FALSE
             /\ plans[i].checks[1].details.vars = <<>>
    /\ (pc = "failed" /\ cursor <= Len(projectIds)) =>
          ~NoSecretsFile(snap, projectIds[cursor])

\* C18 witness: a finished dry run with two projects, neither of which has a
\* secrets file
C18_Witness ==
    /\ DryDone
    /\ Len(plans) = 2
    /\ \A i \in 1..2 :
          /\ NoSecretsFile(snap, plans[i].projectId)
          /\ ~plans[i].checks[1].ok
          /\ plans[i].checks[1].details.vars = <<>>

-----------------------------------------------------------------------------
(* The branches of html_site and playwright_tests *)

\* the type-specific check of plan p is of the given kind, passes exactly
\* when the type's secondary file has a row for the project, and its details
\* are the reported columns of that row and nothing else
RowCheckAsClaimed(p, kind) ==
    LET rows == RowsIn(snap, SecondaryOf(p.type))
        has == RowsFor(rows, p.projectId) # {}
    IN  /\ Len(p.checks) = 2
        /\ p.checks[2].kind = kind
        /\ p.checks[2].ok <=> has
        /\ DOMAIN p.checks[2].details \subseteq ReportedColumns(p.type)
        /\ has => p.checks[2].details
                     = [k \in ReportedColumns(p.type) |->
                           LastRowFor(rows, p.projectId)[k]]

\* the actions of plan p are the given ones, with nothing after them but the
\* action of the apps index
ActionsAsClaimed(p, actions) ==
    p.actions \in {actions, Append(actions, "prepare app release pipeline")}

DeployTargetOf(d, id) == LastRowFor(ManifestRowsIn(d), id).deploy_target

HtmlSiteAsClaimed(p) ==
    /\ RowCheckAsClaimed(p, "html_row")
    /\ ActionsAsClaimed(p,
          <<"scaffold HTML site with chosen build tool">>
             \o IF DeployTargetOf(snap, p.projectId) # ""
                THEN <<"configure deploy: " \o DeployTargetOf(snap, p.projectId)>>
                ELSE <<>>)

\* C19 (as claimed): the plan of a project of type html_site has the html_row
\* check, passing exactly when the sites file has a row for the project, with
\* only build_tool and i18n_locales of that row as details, and its actions
\* are the scaffold action followed by configure deploy: <target> exactly
\* when the manifest row has a non-empty deploy_target
C19_HtmlSite ==
    Planned =>
        \A i \in 1..Len(plans) :
           plans[i].type = "html_site" => HtmlSiteAsClaimed(plans[i])

\* C19, for the projects whose identifier is no name inherited from
\* Object.prototype
C19_ExceptInheritedNames ==
    Planned =>
        \A i \in 1..Len(plans) :
           (plans[i].type = "html_site"
               /\ plans[i].projectId \notin ObjectPrototypeKeys) =>
              HtmlSiteAsClaimed(plans[i])

PlaywrightAsClaimed(p) ==
    /\ RowCheckAsClaimed(p, "tests_row")
    /\ ActionsAsClaimed(p, <<"scaffold Playwright config and tests",
                             "wire CI to run on PR and nightly">>)

\* C20 (as claimed): the plan of a project of type playwright_tests has the
\* tests_row check, passing exactly when the tests file has a row for the
\* project, with only url, browsers and devices of that row as details, and
\* its branch appends the scaffold action and then the CI action, these two
\* and no other
C20_PlaywrightTests ==
    Planned =>
        \A i \in 1..Len(plans) :
           plans[i].type = "playwright_tests" => PlaywrightAsClaimed(plans[i])

\* C20, for the projects whose identifier is no name inherited from
\* Object.prototype
C20_ExceptInheritedNames ==
    Planned =>
        \A i \in 1..Len(plans) :
           (plans[i].type = "playwright_tests"
               /\ plans[i].projectId \notin ObjectPrototypeKeys) =>
              PlaywrightAsClaimed(plans[i])

-----------------------------------------------------------------------------
(* The branch of webhook and the apps action *)

WebhookAsClaimed(p) ==
    /\ RowCheckAsClaimed(p, "webhook_row")
    /\ ActionsAsClaimed(p, <<"validate signing secret and subscribe events",
                             "provision DLQ and retries">>)

\* C21 (as claimed): the plan of a project of type webhook has the
\* webhook_row check, passing exactly when the webhooks file has a row for
\* the project, with only provider and endpoint_url of that row as details,
\* and its branch appends the signing-secret action and then the dead-letter
\* queue action, these two and no other
C21_Webhook ==
    Planned =>
        \A i \in 1..Len(plans) :
           plans[i].type = "webhook" => WebhookAsClaimed(plans[i])

\* C21, for the projects whose identifier is no name inherited from
\* Object.prototype
C21_ExceptInheritedNames ==
    Planned =>
        \A i \in 1..Len(plans) :
           (plans[i].type = "webhook"
               /\ plans[i].projectId \notin ObjectPrototypeKeys) =>
              WebhookAsClaimed(plans[i])

AppsAction == "prepare app release pipeline"

\* the apps action is in the plan exactly when the apps file has a row for
\* the project; it stands once, as the last action, and comes with no check
AppsActionAsClaimed(p) ==
    LET has == RowsFor(RowsIn(snap, AppsFile), p.projectId) # {}
    IN  /\ InSeq(AppsAction, p.actions) <=> has
        /\ has =>
              /\ p.actions[Len(p.actions)] = AppsAction
              /\ Cardinality({j \in 1..Len(p.actions) : p.actions[j] = AppsAction}) = 1
        /\ Len(p.checks) = IF p.type \in SpecificTypes THEN 2 ELSE 1
        /\ \A j \in 1..Len(p.checks) :
              p.checks[j].kind \in {"env", "tests_row", "html_row", "webhook_row"}

\* C22 (as claimed): for a project of any type the apps action is appended
\* exactly when the apps file has a row for the project, it adds no check,
\* and it is the last action of the plan
C22_AppsAction ==
    Planned => \A i \in 1..Len(plans) : AppsActionAsClaimed(plans[i])

\* C22, for the projects whose identifier is no name inherited from
\* Object.prototype
C22_ExceptInheritedNames ==
    Planned =>
        \A i \in 1..Len(plans) :
           plans[i].projectId \notin ObjectPrototypeKeys =>
              AppsActionAsClaimed(plans[i])

-----------------------------------------------------------------------------
(* Projects of no specific type *)

TypeOf(d, id) == LastRowFor(ManifestRowsIn(d), id).type

\* the plan of a project of no specific type: the env check alone, and the
\* apps action alone when the apps file has a row for it, no action otherwise
UntypedAsClaimed(p) ==
    /\ Len(p.checks) = 1
    /\ p.checks[1].kind = "env"
    /\ p.actions = IF RowsFor(RowsIn(snap, AppsFile), p.projectId) # {}
                   THEN <<AppsAction>>
                   ELSE <<>>

\* a run does not fail on a project of no specific type unless its secrets
\* path stands in the way
UntypedNoError ==
    (pc = "failed" /\ cursor <= Len(projectIds)
        /\ TypeOf(snap, projectIds[cursor]) \notin SpecificTypes) =>
       ~NoSecretsFile(snap, projectIds[cursor])

\* C23 (as claimed): a project whose type is none of playwright_tests,
\* html_site and webhook gets the env check and no other, and no action but
\* the apps action when it has an apps row; its type makes no run fail
C23_UntypedProject ==
    /\ Planned =>
          \A i \in 1..Len(plans) :
             plans[i].type \notin SpecificTypes => UntypedAsClaimed(plans[i])
    /\ UntypedNoError

\* C23, for the projects whose identifier is no name inherited from
\* Object.prototype
C23_ExceptInheritedNames ==
    /\ Planned =>
          \A i \in 1..Len(plans) :
             (plans[i].type \notin SpecificTypes
                 /\ plans[i].projectId \notin ObjectPrototypeKeys) =>
                UntypedAsClaimed(plans[i])
    /\ UntypedNoError

-----------------------------------------------------------------------------
(* The summary *)

ExpectedFiles ==
    <<"PROJECTS_MANIFEST.csv", "PLAYWRIGHT_TESTS.csv", "WEBHOOKS.csv",
      "HTML_SITES.csv", "APPS.csv">>

Occurrences(q, x) == Cardinality({i \in 1..Len(q) : q[i] = x})

PlaceIn(q, x) == CHOOSE i \in 1..Len(q) : q[i] = x

\* q holds expected file names only, in the order of the expected-file list
InExpectedOrder(q) ==
    /\ \A i \in 1..Len(q) : InSeq(q[i], ExpectedFiles)
    /\ \A i, j \in 1..Len(q) :
          i < j => PlaceIn(ExpectedFiles, q[i]) < PlaceIn(ExpectedFiles, q[j])

\* C24: from discovery on, each of the five expected names stands exactly
\* once in presentFiles and missing taken together, in presentFiles exactly
\* when the name exists in the working directory the run started on, and
\* both lists keep the order of the expected-file list; the dry run prints
\* these lists
C24_DiscoveryPartition ==
    /\ pc # "idle" =>
          /\ \A n \in 1..Len(ExpectedFiles) :
                LET f == ExpectedFiles[n]
                IN  /\ Occurrences(presentFiles, f) + Occurrences(missing, f) = 1
                    /\ InSeq(f, presentFiles) <=> <<f>> \in DOMAIN snap
          /\ InExpectedOrder(presentFiles)
          /\ InExpectedOrder(missing)
    /\ DryDone =>
          /\ stdout[1].presentFiles = presentFiles
          /\ stdout[1].missingFiles = missing

\* C24 witness: a finished dry run in a working directory where two of the
\* expected names exist, one of them as a directory, and three are missing
C24_Witness ==
    /\ DryDone
    /\ Len(stdout[1].presentFiles) = 2
    /\ Len(stdout[1].missingFiles) = 3
    /\ \E i \in 1..2 : IsDir(snap[<<presentFiles[i]>>])

\* C25: once planning is complete there are as many plans as project
\* identifiers, which is the number of distinct identifiers in the primary
\* manifest, and the dry run prints that number as totalProjects next to
\* that many plans
C25_TotalProjects ==
    /\ Planned =>
          /\ Len(plans) = Len(projectIds)
          /\ Len(plans) = Cardinality(IdsIn(ManifestRowsIn(snap)))
    /\ DryDone =>
          /\ stdout[1].totalProjects = Len(stdout[1].plans)
          /\ stdout[1].totalProjects = Cardinality(IdsIn(ManifestRowsIn(snap)))

\* C25 witness: a finished dry run on a manifest of two different rows with
\* the same identifier, counted as one project
C25_Witness ==
    /\ DryDone
    /\ Len(ManifestRowsIn(snap)) = 2
    /\ ManifestRowsIn(snap)[1] # ManifestRowsIn(snap)[2]
    /\ IdsIn(ManifestRowsIn(snap)) = {"a"}
    /\ stdout[1].totalProjects = 1

-----------------------------------------------------------------------------
(* Repeated identifiers in the primary manifest *)

Repeated(rows) == {id \in IdsIn(rows) : Cardinality(RowsFor(rows, id)) >= 2}

\* the project of a repeated identifier has one plan, at the place of the
\* identifier's first row among the projects, with the type of its last row
\* and the deploy action of its last row's deploy_target
RepeatedAsClaimed(rows, id) ==
    /\ Occurrences(PlanIds(plans), id) = 1
    /\ PlaceIn(PlanIds(plans), id) = PlaceIn(FirstOccurrences(rows), id)
    /\ LET p == plans[PlaceIn(PlanIds(plans), id)]
           last == LastRowFor(rows, id)
       IN  /\ p.type = last.type
           /\ Len(p.checks) = IF last.type \in SpecificTypes THEN 2 ELSE 1
           /\ \A t \in DeployTargets \ {""} :
                 InSeq("configure deploy: " \o t, p.actions)
                    <=> (last.type = "html_site" /\ last.deploy_target = t)
           /\ InSeq("provision DLQ and retries", p.actions)
                 <=> last.type = "webhook"

\* C26 (as claimed): a project whose identifier stands in several rows of the
\* primary manifest gets a single plan, placed where its first row stands,
\* with the type and deploy_target of its last row
C26_RepeatedIds ==
    Planned =>
        \A id \in Repeated(ManifestRowsIn(snap)) :
           RepeatedAsClaimed(ManifestRowsIn(snap), id)

\* C26, for the manifests that hold no array-index identifier
C26_ExceptIndexIds ==
    (Planned /\ IdsIn(ManifestRowsIn(snap)) \cap IndexIds = {}) =>
        \A id \in Repeated(ManifestRowsIn(snap)) :
           RepeatedAsClaimed(ManifestRowsIn(snap), id)

-----------------------------------------------------------------------------
(* Actions and checks against the declared type *)

\* the actions of a specific type, given the deploy target of the manifest row
TypeActions(type, target) ==
    CASE type = "playwright_tests" ->
           <<"scaffold Playwright config and tests",
             "wire CI to run on PR and nightly">>
      [] type = "html_site" ->
           <<"scaffold HTML site with chosen build tool">>
              \o IF target # "" THEN <<"configure deploy: " \o target>> ELSE <<>>
      [] type = "webhook" ->
           <<"validate signing secret and subscribe events",
             "provision DLQ and retries">>
      [] OTHER -> <<>>

IsPrefix(q, r) == Len(q) <= Len(r) /\ SubSeq(r, 1, Len(q)) = q

\* C27: the plan of a project of a specific type starts with the actions of
\* its type whether its row check passes or not
C27_ActionsWithoutRow ==
    Planned =>
        \A i \in 1..Len(plans) :
           plans[i].type \in SpecificTypes =>
              /\ Len(plans[i].checks) = 2
              /\ IsPrefix(TypeActions(plans[i].type,
                                      DeployTargetOf(snap, plans[i].projectId)),
                          plans[i].actions)

\* C27 witness: a webhook project without a row in the webhooks file, whose
\* row check fails and whose plan holds the two webhook actions
C27_Witness ==
    /\ Planned
    /\ Len(plans) = 1
    /\ plans[1].type = "webhook"
    /\ RowsFor(RowsIn(snap, WebhooksFile), plans[1].projectId) = {}
    /\ ~plans[1].checks[2].ok
    /\ Len(plans[1].actions) = 2
    /\ plans[1].actions[2] = "provision DLQ and retries"

KindOf(type) ==
    CASE type = "playwright_tests" -> "tests_row"
      [] type = "html_site" -> "html_row"
      [] OTHER -> "webhook_row"

IsCsv(d, f) ==
    CsvPath(f) \in DOMAIN d /\ d[CsvPath(f)].kind = "file" /\ d[CsvPath(f)].fmt = "csv"

\* the rows of secondary file f that belong to a project of the manifest
\* whose declared type reads f (any project, for the apps file)
Relevant(d, f) ==
    SelectSeq(RowsIn(d, f),
              LAMBDA r : /\ r.project_id \in IdsIn(ManifestRowsIn(d))
                         /\ \/ f = AppsFile
                            \/ /\ TypeOf(d, r.project_id) \in SpecificTypes
                               /\ SecondaryOf(TypeOf(d, r.project_id)) = f)

\* d2 is d1 but for one secondary CSV, whose rows differ only in rows of
\* projects of another type or of identifiers the manifest does not hold
UnrelatedChange(d1, d2) ==
    \E f \in SecondaryFiles :
       /\ DOMAIN d1 = DOMAIN d2
       /\ \A p \in DOMAIN d1 : p # CsvPath(f) => d1[p] = d2[p]
       /\ IsCsv(d1, f) /\ IsCsv(d2, f)
       /\ RowsIn(d1, f) # RowsIn(d2, f)
       /\ Relevant(d1, f) = Relevant(d2, f)

\* C28: every plan has the env check and, exactly when its type is specific,
\* one more check, of the kind of that type; and a dry run prints the same
\* document as the dry run before it when the working directory changed only
\* in secondary rows of projects of another type or of identifiers that are
\* not in the manifest
C28_DeclaredTypeOnly ==
    /\ \A i \in 1..Len(plans) :
          /\ Len(plans[i].checks) \in {1, 2}
          /\ Len(plans[i].checks) = 2 <=> plans[i].type \in SpecificTypes
          /\ Len(plans[i].checks) = 2 =>
                plans[i].checks[2].kind = KindOf(plans[i].type)
    /\ (DryDone /\ prev.ran /\ UnrelatedChange(prev.snap, snap)) =>
          stdout = prev.out

\* C28 witness: the second of two dry runs for a webhook project, after a row
\* for that project was written to the tests table
C28_Witness ==
    /\ DryDone
    /\ prev.ran
    /\ UnrelatedChange(prev.snap, snap)
    /\ Len(plans) = 1
    /\ plans[1].type = "webhook"
    /\ plans[1].projectId = "a"
    /\ RowsFor(RowsIn(prev.snap, TestsFile), "a") = {}
    /\ RowsFor(RowsIn(snap, TestsFile), "a") # {}
    /\ ~plans[1].checks[2].ok

-----------------------------------------------------------------------------
(* Order of the apply step *)

BaseDirs == {<<"secrets">>, <<"content">>, <<"assets">>, <<"imports">>}

\* the paths the run has added to the working directory so far
Created == (DOMAIN fs) \ (DOMAIN snap)

\* C29: in an apply run nothing is created before ingestion and every env
\* probe are over; a per-project directory is created only when the four
\* top-level directories exist; the confirmation is printed only when every
\* directory of the list exists; and whatever was created stays, also when a
\* later step fails
C29_ApplyOrder ==
    (pc # "idle" /\ ~isDryRun) =>
        /\ pc \in {"ingest", "plan"} => (made = 0 /\ Created = {})
        /\ made > 0 => (cursor > Len(projectIds) /\ Len(plans) = Len(projectIds))
        /\ (Created \ BaseDirs # {}) =>
              \A p \in BaseDirs : p \in DOMAIN fs /\ IsDir(fs[p])
        /\ stdout # <<>> =>
              /\ made = Len(ApplyDirs)
              /\ \A p \in ExpectedDirs(snap) : p \in DOMAIN fs /\ IsDir(fs[p])
        /\ \A p \in DOMAIN snap : p \in DOMAIN fs /\ fs[p] = snap[p]
        /\ \A i \in 1..made : ApplyDirs[i] \in DOMAIN fs /\ IsDir(fs[ApplyDirs[i]])

\* C29 witness: an apply run for two projects that created the four top-level
\* directories and two directories of a project and then failed, with these
\* six still there
C29_Witness ==
    /\ ApplyFailed
    /\ Len(plans) = 2
    /\ made = 6
    /\ Cardinality(Created) >= 5
    /\ \E id \in Ids : {<<"secrets", id>>, <<"content", id>>} \subseteq Created

-----------------------------------------------------------------------------
(* Confinement to the four top-level directories *)

TopNames == {"secrets", "content", "assets", "imports"}

\* the path lies in one of the four top-level directories (or is one)
Confined(p) == p # <<>> /\ p[1] \in TopNames

\* the probed path of an env check lies under secrets/ of the working
\* directory
ProbeInSecrets(envPath) ==
    Len(envPath) >= 3 /\ envPath[1] = Cwd /\ envPath[2] = "secrets"

\* C30 (as claimed): an apply run creates no directory outside secrets/,
\* content/, assets/ and imports/, and every secrets probe of a run reads a
\* path under secrets/, whatever the project identifiers are
C30_Confinement ==
    /\ (pc # "idle" /\ ~isDryRun) => \A p \in Created : Confined(p)
    /\ \A i \in 1..Len(plans) : ProbeInSecrets(plans[i].checks[1].details.envPath)

HasDotDot(id) == InSeq("..", Segments(id))

\* C30, for the manifests none of whose identifiers holds a ".." segment
C30_ExceptDotDot ==
    (\A id \in IdsIn(ManifestRowsIn(snap)) : ~HasDotDot(id)) =>
        /\ (pc # "idle" /\ ~isDryRun) => \A p \in Created : Confined(p)
        /\ \A i \in 1..Len(plans) :
              ProbeInSecrets(plans[i].checks[1].details.envPath)

====
